---------------------------- MODULE Spec2Model ----------------------------
(***************************************************************************)
(* A model of json-for-cpp (src/json.hpp, its second copy                  *)
(* src/unnamed/part_000, and the caller src/main.cpp):                     *)
(*   - the recursive-descent parser json::parse and its sub-parsers,       *)
(*   - the serializer json::to_string,                                     *)
(*   - the tagged union smartUnion with its inline / heap-boxed storage,   *)
(*     and json's constructors, assignments and accessors built on it.     *)
(*                                                                         *)
(* Texts are sequences of one-character strings; the cursor `index` is     *)
(* 0-based as in the code, so txt[index] of the code is txt[index + 1]     *)
(* here.  A parsed or serialized Value is a tree (a record tagged by       *)
(* `type`); the smartUnion objects live in slots over an explicit heap.    *)
(***************************************************************************)
EXTENDS Integers, Sequences, FiniteSets, TLC

VARIABLES
    gen,     \* how the caller produced the text: "none", "chars", "members", "tree"
    input,   \* the std::string handed to json::parse / written by to_string
    tree,    \* the Value tree handed to to_string, or NoValue
    res,     \* the outcome of the last parser call, or NoResult
    slots,   \* the json objects of the caller: slot -> dead, or [type, data]
    heap,    \* the free store: address -> free, or the boxed payload
    copyOf,  \* history: the slot each slot was last copied from, if any
    last,    \* the last operation on the slots and what it returned or threw
    ops,     \* the operations the caller of the Value API has performed
    run      \* json::parse executed statement by statement, or NoRun

textVars  == <<gen, input, tree, res>>
valueVars == <<slots, heap, copyOf, last, ops>>
vars      == <<gen, input, tree, res, slots, heap, copyOf, last, ops, run>>

(***************************************************************************)
(* Bounds of the model.                                                    *)
(***************************************************************************)
MaxLen     == 3   \* chunks of a free-form text
MaxMembers == 3   \* members of a generated object text
MaxElems   == 2   \* elements of a generated array text
MaxNodes   == 4   \* nodes of a Value tree handed to to_string
MaxPast    == 1   \* bytes after the terminator that can be read without a fault
MaxAddr    == 4   \* boxes of the free store
MaxDepth   == 2   \* operator[] calls chained in one expression
MaxOps     == 4   \* operations the caller of the Value API performs

(***************************************************************************)
(* Characters.                                                             *)
(***************************************************************************)
NUL    == "NUL"     \* the terminator txt[txt.length()]
FAULT  == "FAULT"   \* no character: the read left the mapped memory
QUOTE  == "\""
Digits == <<"0", "1", "2", "3", "4", "5", "6", "7", "8", "9">>

\* std::isspace in the C locale (the vertical tab is in no text of the model)
isspace(c) == c \in {" ", "\t", "\n", "\f", "\r"}

isdigit(c) == \E d \in 1..10 : Digits[d] = c

DigitVal(c) == (CHOOSE d \in 1..10 : Digits[d] = c) - 1

Max(a, b) == IF a >= b THEN a ELSE b

RECURSIVE Pow10(_)
Pow10(k) == IF k <= 0 THEN 1 ELSE 10 * Pow10(k - 1)

(***************************************************************************)
(* Value trees: what a json object denotes.                                *)
(***************************************************************************)
NoValue    == [type |-> "none"]
Null       == [type |-> "null"]
Bool(b)    == [type |-> "boolean", b |-> b]
Num(n)     == [type |-> "number", n |-> n]
Str(s)     == [type |-> "string", s |-> s]
Arr(a)     == [type |-> "array", a |-> a]
Obj(o)     == [type |-> "object", o |-> o]


\* the characters of a C string literal
Lit(w) ==
    CASE w = "null"  -> <<"n", "u", "l", "l">>
      [] w = "true"  -> <<"t", "r", "u", "e">>
      [] w = "false" -> <<"f", "a", "l", "s", "e">>

(***************************************************************************)
(* Numbers.  A double is modelled as a signed fixed-point decimal          *)
(* [neg, ip, fp]: the integer part ip and the fraction fp * 10^-NumScale,  *)
(* one digit finer than the six fractional digits that                     *)
(* std::to_string(double), which prints "%f", writes (rounded to nearest,  *)
(* ties to even).                                                          *)
(***************************************************************************)
FracDigits == 6
NumScale   == FracDigits + 1

Dec(neg, ip, fp) == [neg |-> neg, ip |-> ip, fp |-> fp]

RECURSIVE DecText(_)
DecText(k) ==
    IF k < 10 THEN <<Digits[k + 1]>>
    ELSE Append(DecText(k \div 10), Digits[(k % 10) + 1])

RECURSIVE PadText(_, _)
PadText(k, width) ==
    IF width = 0 THEN <<>>
    ELSE Append(PadText(k \div 10, width - 1), Digits[(k % 10) + 1])

RoundTo(m, unit) ==
    LET q == m \div unit
        r == m % unit
    IN  IF 2 * r > unit THEN q + 1
        ELSE IF 2 * r = unit THEN q + (q % 2)
        ELSE q

NumToString(n) ==
    LET q     == RoundTo(n.fp, Pow10(NumScale - FracDigits))
        carry == IF q = Pow10(FracDigits) THEN 1 ELSE 0
        sign  == IF n.neg THEN <<"-">> ELSE <<>>
    IN  sign \o DecText(n.ip + carry) \o <<".">>
             \o PadText(q % Pow10(FracDigits), FracDigits)

(***************************************************************************)
(* std::stod on the rest of the text: leading white space, a sign, digits  *)
(* and a fraction.  (The exponent, hexadecimal, "inf" and "nan" forms need *)
(* a letter right after a digit, a point or a sign, which no text of the   *)
(* model holds; fraction digits beyond NumScale are dropped.)              *)
(* Returns whether a number was converted, its value and the number of     *)
(* characters processed.                                                   *)
(***************************************************************************)
RECURSIVE ScanSpace(_, _)
ScanSpace(s, p) ==
    IF p <= Len(s) /\ isspace(s[p]) THEN ScanSpace(s, p + 1) ELSE p

RECURSIVE ScanDigits(_, _, _)
ScanDigits(s, p, acc) ==
    IF p <= Len(s) /\ isdigit(s[p])
    THEN ScanDigits(s, p + 1, 10 * acc + DigitVal(s[p]))
    ELSE [val |-> acc, next |-> p]

RECURSIVE ScanFrac(_, _, _, _)
ScanFrac(s, p, acc, k) ==
    IF p <= Len(s) /\ isdigit(s[p])
    THEN ScanFrac(s, p + 1,
                  IF k < NumScale THEN acc + DigitVal(s[p]) * Pow10(NumScale - k - 1)
                  ELSE acc,
                  k + 1)
    ELSE [val |-> acc, next |-> p]

stod(s) ==
    LET p0      == ScanSpace(s, 1)
        signed  == p0 <= Len(s) /\ s[p0] \in {"+", "-"}
        p1      == IF signed THEN p0 + 1 ELSE p0
        ip      == ScanDigits(s, p1, 0)
        hasInt  == ip.next > p1
        hasDot  == ip.next <= Len(s) /\ s[ip.next] = "."
        fp      == IF hasDot THEN ScanFrac(s, ip.next + 1, 0, 0)
                   ELSE [val |-> 0, next |-> ip.next]
        hasFrac == hasDot /\ fp.next > ip.next + 1
    IN  [ok   |-> hasInt \/ hasFrac,
         val  |-> Dec(signed /\ s[p0] = "-", ip.val, fp.val),
         used |-> (IF hasDot THEN fp.next ELSE ip.next) - 1]

(***************************************************************************)
(* json::to_string.  The iteration order of the unordered_map is not       *)
(* specified, so the serializer is modelled by the set of texts it can     *)
(* write: one per order of the entries of every Object.                    *)
(***************************************************************************)
RECURSIVE Tabs(_)
Tabs(k) == IF k <= 0 THEN <<>> ELSE <<"\t">> \o Tabs(k - 1)

\* all orders in which begin()..end() can visit the keys
RECURSIVE Orders(_)
Orders(S) ==
    IF S = {} THEN {<<>>}
    ELSE UNION {{<<k>> \o rest : rest \in Orders(S \ {k})} : k \in S}

RECURSIVE to_string(_, _)
RECURSIVE ArrayItems(_, _, _, _, _)
RECURSIVE ObjectItems(_, _, _, _, _, _)

\* the while loop over the elements it = begin() + (i - 1) .. end()
ArrayItems(a, i, indent, indentTabs, lineBreak) ==
    IF i > Len(a) THEN {<<>>}
    ELSE LET sep == IF i = Len(a) THEN lineBreak ELSE <<",">> \o lineBreak
         IN  { indentTabs \o e \o sep \o rest :
                 e \in to_string(a[i], indent),
                 rest \in ArrayItems(a, i + 1, indent, indentTabs, lineBreak) }

\* the while loop over the entries, visited in the order `keys`
ObjectItems(o, keys, i, indent, indentTabs, lineBreak) ==
    IF i > Len(keys) THEN {<<>>}
    ELSE LET sep == IF i = Len(keys) THEN lineBreak ELSE <<",">> \o lineBreak
         IN  { indentTabs \o <<QUOTE>> \o keys[i] \o <<QUOTE, ":", " ">> \o e \o sep \o rest :
                 e \in to_string(o[keys[i]], indent),
                 rest \in ObjectItems(o, keys, i + 1, indent, indentTabs, lineBreak) }

to_string(v, indent) ==
    CASE v.type = "null"    -> {Lit("null")}
      [] v.type = "boolean" -> {IF v.b THEN Lit("true") ELSE Lit("false")}
      [] v.type = "number"  -> {NumToString(v.n)}
      [] v.type = "string"  -> {<<QUOTE>> \o v.s \o <<QUOTE>>}
      [] v.type \in {"array", "object"} ->
           LET ind        == IF indent < 0 THEN indent ELSE indent + 1
               indentTabs == IF indent < 0 THEN <<>> ELSE Tabs(ind)
               lineBreak  == IF ind < 0 THEN <<>> ELSE <<"\n">>
               closing    == IF ind < 0 THEN <<>> ELSE Tabs(ind - 1)
           IN  IF v.type = "array"
               THEN { <<"[">> \o lineBreak \o items \o closing \o <<"]">> :
                        items \in ArrayItems(v.a, 1, ind, indentTabs, lineBreak) }
               ELSE { <<"{">> \o lineBreak \o items \o closing \o <<"}">> :
                        items \in UNION { ObjectItems(v.o, keys, 1, ind, indentTabs, lineBreak) :
                                            keys \in Orders(DOMAIN v.o) } }

(***************************************************************************)
(* The parser.  Every rule gets the text, the bytes `past` that happen to  *)
(* follow its terminator in memory, and the cursor; it returns             *)
(*   st    "ok" (returned), "throw" (an exception left it) or "crash" (a   *)
(*         read beyond the bytes that can be read),                        *)
(*   val   the Value returned, NoValue otherwise,                          *)
(*   index the cursor when the rule was left,                              *)
(*   hi    the highest position of the text the rule read.                 *)
(* Reading txt[i] for i > txt.length() is undefined behaviour: the read    *)
(* yields whatever byte `past` holds there, or faults.                     *)
(***************************************************************************)
Ok(val, index, hi) == [st |-> "ok", val |-> val, index |-> index, hi |-> hi]
Throw(index, hi)   == [st |-> "throw", val |-> NoValue, index |-> index, hi |-> hi]
Crash(index)       == [st |-> "crash", val |-> NoValue, index |-> index, hi |-> index]

\* txt[i]
Rd(txt, past, i) ==
    IF i < Len(txt) THEN txt[i + 1]
    ELSE IF i = Len(txt) THEN NUL
    ELSE IF i - Len(txt) <= Len(past) THEN past[i - Len(txt)]
    ELSE FAULT

\* throw parsingError(txt, index): the message is built from txt[index]
parsingError(txt, past, index, hi) ==
    IF Rd(txt, past, index) = FAULT THEN Crash(index)
    ELSE Throw(index, Max(hi, index))

RECURSIVE skipSpaces(_, _)
skipSpaces(txt, index) ==
    LET i == index + 1
    IN  IF i < Len(txt)
        THEN IF ~isspace(txt[i + 1]) THEN i ELSE skipSpaces(txt, i)
        ELSE i

getParser(begin) ==
    CASE begin = "{"         -> "parseObject"
      [] begin = "["         -> "parseArray"
      [] begin = QUOTE       -> "parseString"
      [] begin \in {"t", "f"} -> "parseBoolean"
      [] isdigit(begin)      -> "parseNumber"
      [] begin = "n"         -> "parseNull"
      [] OTHER               -> "throw"

\* strncmp(&txt[index], lit, Len(lit)) == 0, for index <= txt.length()
RECURSIVE CommonPrefix(_, _, _, _)
CommonPrefix(txt, index, lit, k) ==
    IF k < Len(lit) /\ index + k < Len(txt) /\ txt[index + k + 1] = lit[k + 1]
    THEN CommonPrefix(txt, index, lit, k + 1)
    ELSE k

strncmpEq(txt, index, lit) == CommonPrefix(txt, index, lit, 0) = Len(lit)

\* the last position strncmp reads: the first difference, or the last character
strncmpHi(txt, index, lit) ==
    LET k == CommonPrefix(txt, index, lit, 0)
    IN  IF k = Len(lit) THEN index + k - 1 ELSE index + k

\* a parseNull that leaves the cursor behind the literal
parseNullPast(txt, past, index) ==
    IF Len(txt) > index + 3 /\ strncmpEq(txt, index, Lit("null"))
    THEN Ok(Null, index + 4, index + 4)
    ELSE parsingError(txt, past, index, index)

parseNull(txt, past, index) ==
    IF Len(txt) > index + 3 /\ strncmpEq(txt, index, Lit("null"))
    THEN Ok(Null, index + 3, index + 3)
    ELSE parsingError(txt, past, index,
                      IF Len(txt) > index + 3
                      THEN strncmpHi(txt, index, Lit("null")) ELSE index)

parseBoolean(txt, past, index) ==
    IF index < Len(txt)
    THEN IF strncmpEq(txt, index, Lit("false"))
         THEN Ok(Bool(FALSE), index + 4, index + 4)
         ELSE IF strncmpEq(txt, index, Lit("true"))
         THEN Ok(Bool(TRUE), index + 3, index + 3)
         ELSE parsingError(txt, past, index,
                           Max(strncmpHi(txt, index, Lit("false")),
                               strncmpHi(txt, index, Lit("true"))))
    ELSE parsingError(txt, past, index, index)

\* txt.substr(index) throws past the end; std::stod throws when nothing converts
parseNumber(txt, past, index) ==
    IF index > Len(txt) THEN Throw(index, 0)
    ELSE LET r == stod(SubSeq(txt, index + 1, Len(txt)))
         IN  IF ~r.ok THEN Throw(index, Max(index + r.used, 0))
             ELSE Ok(Num(r.val), index + r.used - 1,
                     IF index + r.used < Len(txt) THEN index + r.used
                     ELSE Len(txt) - 1)

\* while (txt[++index] != '\"') { data += txt[index]; if (index + 2 >= length) throw }
RECURSIVE StringLoop(_, _, _, _)
StringLoop(txt, past, index, data) ==
    LET i == index + 1
        c == Rd(txt, past, i)
    IN  IF c = FAULT THEN Crash(i)
        ELSE IF c = QUOTE THEN Ok(Str(data), i, i)
        ELSE IF i + 2 >= Len(txt) THEN parsingError(txt, past, i, i)
        ELSE StringLoop(txt, past, i, Append(data, c))

parseString(txt, past, index) == StringLoop(txt, past, index, <<>>)

\* for (++index; index < length && txt[index] != '\"'; index++) name += txt[index]
RECURSIVE KeyScan(_, _, _)
KeyScan(txt, index, name) ==
    IF index < Len(txt) /\ txt[index + 1] # QUOTE
    THEN KeyScan(txt, index + 1, Append(name, txt[index + 1]))
    ELSE [name |-> name, index |-> index]

\* data.insert({name, value}) of the unordered_map
MapInsert(data, name, val) ==
    IF name \in DOMAIN data THEN data ELSE (name :> val) @@ data

RECURSIVE Apply(_, _, _, _)
RECURSIVE ArrayLoop(_, _, _, _, _, _)
RECURSIVE ObjectLoop(_, _, _, _, _)

\* while (txt[index] == ',' && index < txt.length()), then return data
ArrayNext(f, txt, past, data, hi, index) ==
    IF Rd(txt, past, index) = FAULT THEN Crash(index)
    ELSE IF Rd(txt, past, index) = "," /\ index < Len(txt)
    THEN ArrayLoop(f, txt, past, index, data, Max(hi, index))
    ELSE Ok(Arr(data), index, Max(hi, index))

\* data.push_back(r), r the value f(txt, index) returned; skipSpaces(txt, index)
ArrayPush(f, txt, past, data, hi, r) ==
    IF r.st # "ok" THEN [r EXCEPT !.hi = Max(hi, r.hi)]
    ELSE ArrayNext(f, txt, past, Append(data, r.val), Max(hi, r.hi),
                   skipSpaces(txt, r.index))

\* one turn of the do-while of parseArray, entered with the cursor at `index`
ArrayLoop(f, txt, past, index, data, hi) ==
    ArrayPush(f, txt, past, data, hi, Apply(f, txt, past, skipSpaces(txt, index)))

\* f = getParser(txt[index]); index--; the do-while
ArrayFirst(txt, past, index) ==
    IF Rd(txt, past, index) = FAULT THEN Crash(index)
    ELSE IF getParser(Rd(txt, past, index)) = "throw" THEN Throw(index, index)
    ELSE ArrayLoop(getParser(Rd(txt, past, index)), txt, past, index - 1, <<>>, index)

parseArray(txt, past, index) == ArrayFirst(txt, past, skipSpaces(txt, index))

\* while (txt[index] == ',' && index < txt.length()), then return data
ObjectNext(txt, past, data, hi, index) ==
    IF Rd(txt, past, index) = FAULT THEN Crash(index)
    ELSE IF Rd(txt, past, index) = "," /\ index < Len(txt)
    THEN ObjectLoop(txt, past, index, data, Max(hi, index))
    ELSE Ok(Obj(data), index, Max(hi, index))

\* data.insert({ name, r }), r the value the member's parser returned; skipSpaces
ObjectInsert(txt, past, data, hi, name, r) ==
    IF r.st # "ok" THEN [r EXCEPT !.hi = Max(hi, r.hi)]
    ELSE ObjectNext(txt, past, MapInsert(data, name, r.val), Max(hi, r.hi),
                    skipSpaces(txt, r.index))

\* getParser(txt[index])(txt, index), the cursor on the member's value
ObjectMember(txt, past, data, hi, name, index) ==
    IF Rd(txt, past, index) = FAULT THEN Crash(index)
    ELSE IF getParser(Rd(txt, past, index)) = "throw"
    THEN Throw(index, Max(hi, index))
    ELSE ObjectInsert(txt, past, data, Max(hi, index), name,
                      Apply(getParser(Rd(txt, past, index)), txt, past, index))

\* the two skipSpaces after the key k, whose scan began behind `index`
ObjectValue(txt, past, index, data, hi, k) ==
    ObjectMember(txt, past, data,
                 Max(hi, IF k.index < Len(txt) THEN k.index ELSE index),
                 k.name, skipSpaces(txt, skipSpaces(txt, k.index)))

\* if (txt[index] == '}') return data; else the key is scanned
ObjectKey(txt, past, index, data, hi) ==
    IF Rd(txt, past, index) = FAULT THEN Crash(index)
    ELSE IF Rd(txt, past, index) = "}" THEN Ok(Obj(data), index, Max(hi, index))
    ELSE ObjectValue(txt, past, index, data, hi, KeyScan(txt, index + 1, <<>>))

\* one turn of the do-while of parseObject, entered with the cursor at `index`
ObjectLoop(txt, past, index, data, hi) ==
    ObjectKey(txt, past, skipSpaces(txt, index), data, hi)

parseObject(txt, past, index) == ObjectLoop(txt, past, index, <<>>, index)

\* the call f(txt, index) through the function pointer getParser returned
Apply(f, txt, past, index) ==
    CASE f = "parseObject"  -> parseObject(txt, past, index)
      [] f = "parseArray"   -> parseArray(txt, past, index)
      [] f = "parseString"  -> parseString(txt, past, index)
      [] f = "parseBoolean" -> parseBoolean(txt, past, index)
      [] f = "parseNumber"  -> parseNumber(txt, past, index)
      [] f = "parseNull"    -> parseNull(txt, past, index)

\* the dispatch of json::parse on txt[index]
ParseFrom(txt, past, index) ==
    IF Rd(txt, past, index) = "{" THEN parseObject(txt, past, index)
    ELSE IF Rd(txt, past, index) = "[" THEN parseArray(txt, past, index)
    ELSE Throw(index, index)

parse(txt, past) ==
    IF Len(txt) < 2 THEN Throw(0, 0)
    ELSE ParseFrom(txt, past,
                   IF txt[1] # "{" /\ txt[1] # "[" THEN skipSpaces(txt, 0) ELSE 0)

(***************************************************************************)
(* The bytes that may follow the terminator of the text in memory.         *)
(***************************************************************************)
PastBytes == {NUL, QUOTE, "{"}

RECURSIVE SeqsUpTo(_, _)
SeqsUpTo(S, k) ==
    IF k = 0 THEN {<<>>}
    ELSE LET shorter == SeqsUpTo(S, k - 1)
         IN  shorter \cup {Append(q, c) : q \in {r \in shorter : Len(r) = k - 1}, c \in S}

PastMem == SeqsUpTo(PastBytes, MaxPast)

\* a call of json::parse (f = "parse") or of one rule at the cursor `index`
Run(f, txt, past, index) ==
    IF f = "parse" THEN parse(txt, past) ELSE Apply(f, txt, past, index)

\* what the call can do: one outcome, unless it reads beyond the terminator
Outcomes(f, txt, index) ==
    LET r0 == Run(f, txt, <<>>, index)
    IN  IF r0.hi <= Len(txt) THEN {r0}
        ELSE {Run(f, txt, past, index) : past \in PastMem}

(***************************************************************************)
(* The caller of the parser and the serializer.  A text is written chunk   *)
(* by chunk ("chars"), member by member ("members", closed into "object"), *)
(* or by to_string from a Value tree the caller built ("tree", then        *)
(* "written").                                                             *)
(***************************************************************************)
NoResult == [rule |-> "none"]

Chunks == {<<"{">>, <<"}">>, <<"[">>, <<"]">>, <<QUOTE>>, <<" ">>, <<"1">>, <<"a">>,
           Lit("null"), Lit("true"), Lit("false")}

Keys == {<<"a">>, <<"b">>}

\* the element texts of an array text; <<"[", "1">> is an array that the
\* text does not close
ElementTexts == {<<"1">>, <<"2">>, Lit("null"), Lit("true"),
                 <<QUOTE, "a", QUOTE>>, <<"[", "1", "]">>, <<"[", "1">>,
                 <<"{", "}">>}

\* the optional whitespace around an element
Spaces == {<<>>, <<" ">>}

MemberTexts == {<<"1">>, <<"2">>, Lit("null"), Lit("true"),
                <<"[", "1", "]">>, <<"{", "}">>}

One      == Dec(FALSE, 1, 0)
MinusOne == Dec(TRUE, 1, 0)
Tiny     == Dec(FALSE, 0, 1)

Leaves == {Null, Bool(TRUE), Bool(FALSE), Num(One), Num(MinusOne), Num(Tiny),
           Str(<<>>), Str(<<"a">>), Arr(<<>>), Obj(<<>>)}

Indents == {-1, 0, 1}

Gen(kind, n) == [kind |-> kind, n |-> n]

InitText ==
    /\ gen = Gen("none", 0)
    /\ input = <<>>
    /\ tree = NoValue
    /\ res = NoResult

AppendChars(c) ==
    /\ gen.kind \in {"none", "chars"}
    /\ res = NoResult
    /\ gen.n < MaxLen
    /\ gen' = Gen("chars", gen.n + 1)
    /\ input' = input \o c
    /\ UNCHANGED <<tree, res>>
    /\ UNCHANGED <<valueVars, run>>

AppendMember(k, m) ==
    /\ gen.kind \in {"none", "members"}
    /\ res = NoResult
    /\ gen.n < MaxMembers
    /\ gen' = Gen("members", gen.n + 1)
    /\ input' = (IF gen.n = 0 THEN <<"{">> ELSE input \o <<",">>)
                   \o <<QUOTE>> \o k \o <<QUOTE, ":">> \o m
    /\ UNCHANGED <<tree, res>>
    /\ UNCHANGED <<valueVars, run>>

CloseObject ==
    /\ gen.kind = "members"
    /\ res = NoResult
    /\ gen' = Gen("object", gen.n)
    /\ input' = input \o <<"}">>
    /\ UNCHANGED <<tree, res>>
    /\ UNCHANGED <<valueVars, run>>

\* the caller writes '[' e1 ',' e2 ... : gen.elems keeps the position at which
\* each element begins
AppendElement(e, pre, post) ==
    /\ gen.kind \in {"none", "elements"}
    /\ res = NoResult
    /\ gen.n < MaxElems
    /\ gen' = [kind |-> "elements", n |-> gen.n + 1,
               elems |-> Append(IF gen.n = 0 THEN <<>> ELSE gen.elems,
                                Len(input) + 1 + Len(pre))]
    /\ input' = (IF gen.n = 0 THEN <<"[">> ELSE input \o <<",">>)
                   \o pre \o e \o post
    /\ UNCHANGED <<tree, res>>
    /\ UNCHANGED <<valueVars, run>>

CloseArray ==
    /\ gen.kind = "elements"
    /\ res = NoResult
    /\ gen' = [gen EXCEPT !.kind = "array"]
    /\ input' = input \o <<"]">>
    /\ UNCHANGED <<tree, res>>
    /\ UNCHANGED <<valueVars, run>>

\* json(const T&), json(T&&), json(): the caller makes a Value
NewValue(s) ==
    /\ gen.kind = "none"
    /\ gen' = Gen("tree", 1)
    /\ tree' = s
    /\ UNCHANGED <<input, res>>
    /\ UNCHANGED <<valueVars, run>>

\* Array{ std::move(value) }
WrapArray ==
    /\ gen.kind = "tree"
    /\ gen.n < MaxNodes
    /\ gen' = Gen("tree", gen.n + 1)
    /\ tree' = Arr(<<tree>>)
    /\ UNCHANGED <<input, res>>
    /\ UNCHANGED <<valueVars, run>>

\* Object{ { key, std::move(value) } }
WrapObject(k) ==
    /\ gen.kind = "tree"
    /\ gen.n < MaxNodes
    /\ gen' = Gen("tree", gen.n + 1)
    /\ tree' = Obj(k :> tree)
    /\ UNCHANGED <<input, res>>
    /\ UNCHANGED <<valueVars, run>>

\* get<Array>().push_back(s)
PushElement(s) ==
    /\ gen.kind = "tree"
    /\ gen.n < MaxNodes
    /\ tree.type = "array"
    /\ gen' = Gen("tree", gen.n + 1)
    /\ tree' = Arr(Append(tree.a, s))
    /\ UNCHANGED <<input, res>>
    /\ UNCHANGED <<valueVars, run>>

\* value[key] = s for a key the Object does not hold yet
PutMember(k, s) ==
    /\ gen.kind = "tree"
    /\ gen.n < MaxNodes
    /\ tree.type = "object"
    /\ k \notin DOMAIN tree.o
    /\ gen' = Gen("tree", gen.n + 1)
    /\ tree' = Obj((k :> s) @@ tree.o)
    /\ UNCHANGED <<input, res>>
    /\ UNCHANGED <<valueVars, run>>

\* value.to_string(out, indent): `input` becomes what the stream received
Serialize(indent) ==
    /\ gen.kind = "tree"
    /\ gen' = Gen("written", indent)
    /\ input' \in to_string(tree, indent)
    /\ UNCHANGED <<tree, res>>
    /\ UNCHANGED <<valueVars, run>>

\* json::parse(input)
Parse ==
    /\ gen.kind # "tree"
    /\ res = NoResult
    /\ \E r \in Outcomes("parse", input, 0) :
           res' = [rule |-> "parse", start |-> 0, out |-> r]
    /\ UNCHANGED <<gen, input, tree>>
    /\ UNCHANGED <<valueVars, run>>

\* getParser(txt[index])(txt, index): the call parseArray and parseObject make
\* for a value that begins at position i of the text
RunRule(i) ==
    /\ gen.kind = "chars"
    /\ res = NoResult
    /\ i < Len(input)
    /\ getParser(input[i + 1]) # "throw"
    /\ \E r \in Outcomes(getParser(input[i + 1]), input, i) :
           res' = [rule |-> getParser(input[i + 1]), start |-> i, out |-> r]
    /\ UNCHANGED <<gen, input, tree>>
    /\ UNCHANGED <<valueVars, run>>

Next ==
    \/ \E c \in Chunks : AppendChars(c)
    \/ \E k \in Keys, m \in MemberTexts : AppendMember(k, m)
    \/ CloseObject
    \/ \E e \in ElementTexts, pre \in Spaces, post \in Spaces :
           AppendElement(e, pre, post)
    \/ CloseArray
    \/ \E s \in Leaves : NewValue(s)
    \/ WrapArray
    \/ \E k \in Keys : WrapObject(k)
    \/ \E s \in Leaves : PushElement(s)
    \/ \E k \in Keys, s \in Leaves : PutMember(k, s)
    \/ \E indent \in Indents : Serialize(indent)
    \/ Parse
    \/ \E i \in 0..(MaxLen * 5) : RunRule(i)

(***************************************************************************)
(* smartUnion over an explicit free store.                                 *)
(*                                                                         *)
(* A json object is its member `data`, a smartUnion [type, data]: `type`   *)
(* is the tag and `data` the 64-bit word, which holds                      *)
(*   [bits |-> 0]          for null,                                       *)
(*   [b, pad]              a Boolean in its low byte; the other seven      *)
(*                         bytes `pad` come from reading the bool as a     *)
(*                         uint64_t, a read beyond it, and hold anything,  *)
(*   [neg, ip, fp]         a Number, stored inline,                        *)
(*   [addr |-> a]          a pointer to the box of a String, Array or      *)
(*                         Object made by new T.                           *)
(* A box holds the payload; the json elements of an Array or Object are    *)
(* stored in the box of their container.                                   *)
(***************************************************************************)
SlotIds == {"x", "y"}
Addrs   == 1..MaxAddr
Pads    == {0, 1}
Headers == {"json.hpp", "part_000"}

Dead  == [type |-> "dead"]
Free  == [kind |-> "free"]
JNull == [type |-> "null", data |-> [bits |-> 0]]

Ptr(t, a) == [type |-> t, data |-> [addr |-> a]]

\* sizeof(T) > sizeof(void*): String, Array and Object are boxed
using_pointer(t) == t \in {"string", "array", "object"}

\* operator new: some free address (the least one)
Alloc(h) == CHOOSE a \in Addrs : h[a] = Free /\ \A b \in 1..(a - 1) : h[b] # Free

FreeCells(h) == Cardinality({a \in Addrs : h[a] = Free})

\* delete (char*) data: the box is released, no destructor runs
Delete(h, u) == IF using_pointer(u.type) THEN [h EXCEPT ![u.data.addr] = Free] ELSE h

RECURSIVE SetToSeq(_)
SetToSeq(S) ==
    IF S = {} THEN <<>>
    ELSE LET k == CHOOSE e \in S : TRUE IN <<k>> \o SetToSeq(S \ {k})

\* the boxes a payload needs
RECURSIVE Boxes(_)
Boxes(v) ==
    CASE v.type = "string" -> 1
      [] v.type = "array"  ->
           LET F[i \in 0..Len(v.a)] == IF i = 0 THEN 0 ELSE F[i - 1] + Boxes(v.a[i])
           IN  1 + F[Len(v.a)]
      [] v.type = "object" ->
           LET ks == SetToSeq(DOMAIN v.o)
               F[i \in 0..Len(ks)] == IF i = 0 THEN 0 ELSE F[i - 1] + Boxes(v.o[ks[i]])
           IN  1 + F[Len(ks)]
      [] OTHER -> 0

(***************************************************************************)
(* smartUnion(const T&) / smartUnion(T&&): the payload t, given as a tree, *)
(* is stored inline or copied into a new box; the elements of an Array or  *)
(* Object are copied one by one by T's copy constructor.                   *)
(***************************************************************************)
RECURSIVE New(_, _, _)
RECURSIVE NewSeq(_, _, _, _, _)
RECURSIVE NewMap(_, _, _, _, _, _)

NewSeq(a, i, h, pad, acc) ==
    IF i > Len(a) THEN [nodes |-> acc, heap |-> h]
    ELSE LET r == New(a[i], h, pad)
         IN  NewSeq(a, i + 1, r.heap, pad, Append(acc, r.node))

NewMap(o, ks, i, h, pad, acc) ==
    IF i > Len(ks) THEN [nodes |-> acc, heap |-> h]
    ELSE LET r == New(o[ks[i]], h, pad)
         IN  NewMap(o, ks, i + 1, r.heap, pad, (ks[i] :> r.node) @@ acc)

\* T(t) for a boxed T: the payload as a box would hold it
Payload(v, h, pad) ==
    CASE v.type = "string" -> [box |-> [kind |-> "string", s |-> v.s], heap |-> h]
      [] v.type = "array"  ->
           LET r == NewSeq(v.a, 1, h, pad, <<>>)
           IN  [box |-> [kind |-> "array", a |-> r.nodes], heap |-> r.heap]
      [] v.type = "object" ->
           LET r == NewMap(v.o, SetToSeq(DOMAIN v.o), 1, h, pad, <<>>)
           IN  [box |-> [kind |-> "object", o |-> r.nodes], heap |-> r.heap]

New(v, h, pad) ==
    CASE v.type = "boolean" ->
           [node |-> [type |-> "boolean", data |-> [b |-> v.b, pad |-> pad]], heap |-> h]
      [] v.type = "number" ->
           [node |-> [type |-> "number", data |-> v.n], heap |-> h]
      [] using_pointer(v.type) ->
           LET a == Alloc(h)
               r == Payload(v, [h EXCEPT ![a] = [kind |-> v.type]], pad)
           IN  [node |-> Ptr(v.type, a), heap |-> [r.heap EXCEPT ![a] = r.box]]
      [] OTHER -> [node |-> JNull, heap |-> h]

(***************************************************************************)
(* json::copy_json_data with smartUnion::copy<T>: T(get<T>()) copies the   *)
(* payload, every element of an Array or Object through json(const json&), *)
(* and smartUnion(T&&) boxes the copy.                                     *)
(***************************************************************************)
RECURSIVE copy_json_data(_, _, _)
RECURSIVE CopySeq(_, _, _, _, _)
RECURSIVE CopyMap(_, _, _, _, _, _)

\* a copy of the vector that takes the words of its elements as they are
ShareSeq(a, i, h, pad, acc) == [nodes |-> a, heap |-> h]

CopySeq(a, i, h, pad, acc) ==
    IF i > Len(a) THEN [nodes |-> acc, heap |-> h]
    ELSE LET r == copy_json_data(a[i], h, pad)
         IN  CopySeq(a, i + 1, r.heap, pad, Append(acc, r.node))

CopyMap(o, ks, i, h, pad, acc) ==
    IF i > Len(ks) THEN [nodes |-> acc, heap |-> h]
    ELSE LET r == copy_json_data(o[ks[i]], h, pad)
         IN  CopyMap(o, ks, i + 1, r.heap, pad, (ks[i] :> r.node) @@ acc)

copy_json_data(u, h, pad) ==
    CASE u.type = "boolean" ->
           [node |-> [type |-> "boolean", data |-> [b |-> u.data.b, pad |-> pad]], heap |-> h]
      [] u.type = "number" ->
           [node |-> [type |-> "number", data |-> u.data], heap |-> h]
      [] u.type = "string" ->
           LET a == Alloc(h)
           IN  [node |-> Ptr("string", a), heap |-> [h EXCEPT ![a] = h[u.data.addr]]]
      [] u.type = "array" ->
           LET a == Alloc(h)
               r == CopySeq(h[u.data.addr].a, 1,
                            [h EXCEPT ![a] = [kind |-> "array", a |-> <<>>]], pad, <<>>)
           IN  [node |-> Ptr("array", a),
                heap |-> [r.heap EXCEPT ![a] = [kind |-> "array", a |-> r.nodes]]]
      [] u.type = "object" ->
           LET a  == Alloc(h)
               o  == h[u.data.addr].o
               r  == CopyMap(o, SetToSeq(DOMAIN o), 1,
                             [h EXCEPT ![a] = [kind |-> "object", o |-> <<>>]], pad, <<>>)
           IN  [node |-> Ptr("object", a),
                heap |-> [r.heap EXCEPT ![a] = [kind |-> "object", o |-> r.nodes]]]
      [] OTHER -> [node |-> JNull, heap |-> h]

(***************************************************************************)
(* What a json object denotes, and the boxes it reaches.                   *)
(***************************************************************************)
RECURSIVE Abs(_, _)
Abs(u, h) ==
    CASE u.type = "dead"    -> NoValue
      [] u.type = "null"    -> Null
      [] u.type = "boolean" -> Bool(u.data.b)
      [] u.type = "number"  -> Num(u.data)
      [] OTHER ->
           LET box == h[u.data.addr]
           IN  IF box.kind # u.type THEN [type |-> "dangling"]
               ELSE CASE u.type = "string" -> Str(box.s)
                      [] u.type = "array"  -> Arr([i \in 1..Len(box.a) |-> Abs(box.a[i], h)])
                      [] u.type = "object" -> Obj([k \in DOMAIN box.o |-> Abs(box.o[k], h)])

RECURSIVE Reach(_, _)
Reach(u, h) ==
    IF ~using_pointer(u.type) THEN {}
    ELSE LET box == h[u.data.addr]
         IN  {u.data.addr} \cup
             CASE box.kind = "array"  -> UNION {Reach(box.a[i], h) : i \in 1..Len(box.a)}
               [] box.kind = "object" -> UNION {Reach(box.o[k], h) : k \in DOMAIN box.o}
               [] OTHER -> {}

\* ~smartUnion and delete (char*) release a box alone: what the box owned is
\* leaked, and the boxes no json object reaches any more leave the model
Reclaim(sl, h) ==
    LET live == UNION {Reach(sl[s], h) : s \in SlotIds}
    IN  [a \in Addrs |-> IF a \in live THEN h[a] ELSE Free]

(***************************************************************************)
(* The operations of smartUnion.                                           *)
(***************************************************************************)
\* smartUnion(smartUnion&& otherUnion)
MoveConstructU(otherUnion) ==
    [self  |-> otherUnion,
     other |-> IF using_pointer(otherUnion.type) THEN JNull ELSE otherUnion]

\* operator=(smartUnion&& otherUnion)
MoveAssignU(self, otherUnion, h) ==
    [self |-> otherUnion, other |-> JNull, heap |-> Delete(h, self)]

\* operator=(const T& t) / operator=(T&& t), the payload t given as a tree
AssignU(self, t, h, pad) ==
    IF using_pointer(t.type) /\ t.type = self.type
    THEN LET r == Payload(t, h, pad)
         IN  [node |-> self, heap |-> [r.heap EXCEPT ![self.data.addr] = r.box]]
    ELSE New(t, Delete(h, self), pad)

\* a get<T>() that converts between the two inline variants
getConverting(u, T) ==
    IF T = u.type \/ {T, u.type} \subseteq {"boolean", "number"}
    THEN "ok" ELSE "TypeMismatch"

\* get<T>(): the payload, or std::invalid_argument

get(u, T) == IF T # u.type THEN "TypeMismatch" ELSE "ok"

(***************************************************************************)
(* The accessors of json.  A step is one operator[] call: [i |-> n] by     *)
(* position, [k |-> key] by key.  A reference json& is the place of the    *)
(* json object: the caller's slot, or an element of a box.                 *)
(***************************************************************************)
IsIdx(step) == "i" \in DOMAIN step

Root == [kind |-> "root"]
ElemRef(a, step) == [kind |-> "elem", addr |-> a, step |-> step]

Elem(h, a, step) ==
    IF IsIdx(step) THEN h[a].a[step.i + 1] ELSE h[a].o[step.k]

SetElem(h, a, step, u) ==
    IF IsIdx(step) THEN [h EXCEPT ![a].a[step.i + 1] = u]
    ELSE [h EXCEPT ![a].o[step.k] = u]

\* operator[](const size_t index), const and not, of json.hpp
IndexChecked(u, h, index) ==
    IF u.type = "array"
    THEN IF index < Len(h[u.data.addr].a) THEN "ok" ELSE "IndexOutOfRange"
    ELSE "TypeMismatch"

\* operator[](const size_t index), const and not, of the second copy of the
\* header: data.get<Array>()[index], std::vector's unchecked operator[].
\* Beyond the length the behaviour is undefined.
IndexUnchecked(u, h, index) ==
    IF get(u, "array") # "ok" THEN "TypeMismatch"
    ELSE IF index < Len(h[u.data.addr].a) THEN "ok"
    ELSE "undefined"

IndexAt(u, h, index, hdr) ==
    IF hdr = "json.hpp" THEN IndexChecked(u, h, index) ELSE IndexUnchecked(u, h, index)

\* operator[](key) const: data.get<Object>().at(s)
KeyConst(u, h, s) ==
    IF get(u, "object") # "ok" THEN "TypeMismatch"
    ELSE IF s \in DOMAIN h[u.data.addr].o THEN "ok"
    ELSE "KeyNotFound"

\* an operator[](key) that stores json() under s whether s is present or not
KeyMutOverwrite(u, h, s) ==
    IF get(u, "object") # "ok" THEN [st |-> "TypeMismatch", heap |-> h]
    ELSE [st   |-> "ok",
          heap |-> [h EXCEPT ![u.data.addr].o = (s :> JNull) @@ @]]

\* operator[](key): data.get<Object>()[s], which adds s -> json() when absent
KeyMut(u, h, s) ==
    IF get(u, "object") # "ok" THEN [st |-> "TypeMismatch", heap |-> h]
    ELSE [st   |-> "ok",
          heap |-> IF s \in DOMAIN h[u.data.addr].o THEN h
                   ELSE [h EXCEPT ![u.data.addr].o = (s :> JNull) @@ @]]

\* a chain of operator[] calls from the json object u at `ref`
RECURSIVE Walk(_, _, _, _, _)
Walk(ref, u, h, path, mut) ==
    IF path = <<>> THEN [st |-> "ok", ref |-> ref, node |-> u, heap |-> h]
    ELSE LET step == Head(path)
             r    == IF IsIdx(step) THEN [st |-> IndexChecked(u, h, step.i), heap |-> h]
                     ELSE IF mut THEN KeyMut(u, h, step.k)
                     ELSE [st |-> KeyConst(u, h, step.k), heap |-> h]
         IN  IF r.st # "ok" THEN [st |-> r.st, ref |-> ref, node |-> u, heap |-> r.heap]
             ELSE Walk(ElemRef(u.data.addr, step), Elem(r.heap, u.data.addr, step),
                       r.heap, Tail(path), mut)

\* writing the json object at a reference
Store(sl, h, s, ref, u) ==
    IF ref.kind = "root" THEN [slots |-> [sl EXCEPT ![s] = u], heap |-> h]
    ELSE [slots |-> sl, heap |-> SetElem(h, ref.addr, ref.step, u)]

(***************************************************************************)
(* The caller of the Value API: two json objects x and y, default          *)
(* constructed, on which every public operation can be called.             *)
(***************************************************************************)
Types == {"boolean", "number", "string", "array", "object"}

Payloads == {Bool(TRUE), Num(One), Str(<<"a">>), Arr(<<Num(One)>>),
             Obj(<<"a">> :> Null)}

Steps == {[i |-> 0], [k |-> <<"a">>]}

Paths == SeqsUpTo(Steps, MaxDepth)

\* the bytes beside a bool that the word can take up: none unless v holds one
RECURSIVE HasBool(_)
HasBool(v) ==
    CASE v.type = "boolean" -> TRUE
      [] v.type = "array"   -> \E i \in 1..Len(v.a) : HasBool(v.a[i])
      [] v.type = "object"  -> \E k \in DOMAIN v.o : HasBool(v.o[k])
      [] OTHER -> FALSE

PadsFor(v) == IF HasBool(v) THEN Pads ELSE {0}

NoSlot == "-"
NoArg  == [none |-> 0]

Op(op, slot, other, path, arg, mut, hdr, ret, val) ==
    [op |-> op, slot |-> slot, other |-> other, path |-> path, arg |-> arg,
     mut |-> mut, hdr |-> hdr, ret |-> ret, val |-> val]

NoOp == Op("none", NoSlot, NoSlot, <<>>, NoArg, FALSE, "json.hpp", "ok", NoValue)

\* the history of copies once slot s holds a new object
Forget(c, s) == [t \in SlotIds |-> IF t = s \/ c[t] = s THEN NoSlot ELSE c[t]]

InitValue ==
    /\ slots = [s \in SlotIds |-> JNull]
    /\ heap = [a \in Addrs |-> Free]
    /\ copyOf = [s \in SlotIds |-> NoSlot]
    /\ last = NoOp
    /\ ops = 0

\* ~json()
Destroy(s) ==
    /\ ops < MaxOps
    /\ ops' = ops + 1
    /\ UNCHANGED <<textVars, run>>
    /\ slots[s] # Dead
    /\ slots' = [slots EXCEPT ![s] = Dead]
    /\ heap' = Reclaim(slots', Delete(heap, slots[s]))
    /\ copyOf' = Forget(copyOf, s)
    /\ last' = Op("destroy", s, NoSlot, <<>>, NoArg, FALSE, "json.hpp", "ok", NoValue)

\* json s;
DefaultConstruct(s) ==
    /\ ops < MaxOps
    /\ ops' = ops + 1
    /\ UNCHANGED <<textVars, run>>
    /\ slots[s] = Dead
    /\ slots' = [slots EXCEPT ![s] = JNull]
    /\ copyOf' = Forget(copyOf, s)
    /\ last' = Op("default", s, NoSlot, <<>>, NoArg, FALSE, "json.hpp", "ok", NoValue)
    /\ UNCHANGED heap

\* json s(t); for a payload t
Construct(s, t, pad) ==
    /\ ops < MaxOps
    /\ ops' = ops + 1
    /\ UNCHANGED <<textVars, run>>
    /\ slots[s] = Dead
    /\ Boxes(t) <= FreeCells(heap)
    /\ LET r == New(t, heap, pad)
       IN  /\ slots' = [slots EXCEPT ![s] = r.node]
           /\ heap' = r.heap
    /\ copyOf' = Forget(copyOf, s)
    /\ last' = Op("construct", s, NoSlot, <<>>, [t |-> t.type], FALSE, "json.hpp", "ok", t)

\* json d(s[path]...); the source read through const json&
CopyConstruct(d, s, path) ==
    /\ ops < MaxOps
    /\ ops' = ops + 1
    /\ UNCHANGED <<textVars, run>>
    /\ slots[d] = Dead
    /\ slots[s] # Dead
    /\ LET w == Walk(Root, slots[s], heap, path, FALSE)
       IN  IF w.st # "ok"
           THEN /\ last' = Op("copy-construct", d, s, path, NoArg, FALSE, "json.hpp", w.st, NoValue)
                /\ UNCHANGED <<slots, heap, copyOf>>
           ELSE /\ Boxes(Abs(w.node, heap)) <= FreeCells(heap)
                /\ \E pad \in PadsFor(Abs(w.node, heap)) :
                       LET r == copy_json_data(w.node, heap, pad)
                       IN  /\ slots' = [slots EXCEPT ![d] = r.node]
                           /\ heap' = r.heap
                /\ copyOf' = [Forget(copyOf, d) EXCEPT ![d] = s]
                /\ last' = Op("copy-construct", d, s, path, NoArg, FALSE, "json.hpp", "ok",
                              Abs(w.node, heap))

\* json d(std::move(s));
MoveConstruct(d, s) ==
    /\ ops < MaxOps
    /\ ops' = ops + 1
    /\ UNCHANGED <<textVars, run>>
    /\ slots[d] = Dead
    /\ slots[s] # Dead
    /\ LET r == MoveConstructU(slots[s])
       IN  slots' = [slots EXCEPT ![d] = r.self, ![s] = r.other]
    /\ copyOf' = Forget(Forget(copyOf, d), s)
    /\ last' = Op("move-construct", d, s, <<>>, NoArg, FALSE, "json.hpp", "ok",
                  Abs(slots[s], heap))
    /\ UNCHANGED heap

\* s[path]... = t; for a payload t
AssignPayload(s, path, t, pad) ==
    /\ ops < MaxOps
    /\ ops' = ops + 1
    /\ UNCHANGED <<textVars, run>>
    /\ slots[s] # Dead
    /\ Boxes(t) <= FreeCells(heap)
    /\ LET w == Walk(Root, slots[s], heap, path, TRUE)
       IN  IF w.st # "ok"
           THEN /\ heap' = w.heap
                /\ last' = Op("assign", s, NoSlot, path, [t |-> t.type], TRUE, "json.hpp", w.st, t)
                /\ UNCHANGED <<slots, copyOf>>
           ELSE LET r == AssignU(w.node, t, w.heap, pad)
                    n == Store(slots, r.heap, s, w.ref, r.node)
                IN  /\ slots' = n.slots
                    /\ heap' = Reclaim(n.slots, n.heap)
                    /\ last' = Op("assign", s, NoSlot, path, [t |-> t.type], TRUE, "json.hpp", "ok", t)
                    /\ UNCHANGED copyOf

\* d = s[path]...; the source read through const json&
CopyAssign(d, s, path) ==
    /\ ops < MaxOps
    /\ ops' = ops + 1
    /\ UNCHANGED <<textVars, run>>
    /\ slots[d] # Dead
    /\ slots[s] # Dead
    /\ LET w == Walk(Root, slots[s], heap, path, FALSE)
       IN  IF w.st # "ok"
           THEN /\ last' = Op("copy-assign", d, s, path, NoArg, FALSE, "json.hpp", w.st, NoValue)
                /\ UNCHANGED <<slots, heap, copyOf>>
           ELSE /\ Boxes(Abs(w.node, heap)) <= FreeCells(heap)
                /\ \E pad \in PadsFor(Abs(w.node, heap)) :
                       LET c == copy_json_data(w.node, heap, pad)
                           m == MoveAssignU(slots[d], c.node, c.heap)
                       IN  /\ slots' = [slots EXCEPT ![d] = m.self]
                           /\ heap' = Reclaim(slots', m.heap)
                /\ copyOf' = IF d = s THEN copyOf ELSE [Forget(copyOf, d) EXCEPT ![d] = s]
                /\ last' = Op("copy-assign", d, s, path, NoArg, FALSE, "json.hpp", "ok",
                              Abs(w.node, heap))

\* d = std::move(s);
MoveAssign(d, s) ==
    /\ ops < MaxOps
    /\ ops' = ops + 1
    /\ UNCHANGED <<textVars, run>>
    /\ slots[d] # Dead
    /\ slots[s] # Dead
    /\ LET m == MoveAssignU(slots[d], slots[s], heap)
       IN  /\ slots' = [slots EXCEPT ![d] = m.self, ![s] = m.other]
           /\ heap' = Reclaim(slots', m.heap)
    /\ copyOf' = Forget(Forget(copyOf, d), s)
    /\ last' = Op("move-assign", d, s, <<>>, NoArg, FALSE, "json.hpp", "ok",
                  Abs(slots[s], heap))

\* s.get<T>(), or the conversion operator T built on it
Get(s, T) ==
    /\ ops < MaxOps
    /\ ops' = ops + 1
    /\ UNCHANGED <<textVars, run>>
    /\ slots[s] # Dead
    /\ last' = Op("get", s, NoSlot, <<>>, [t |-> T], FALSE, "json.hpp", get(slots[s], T),
                  IF get(slots[s], T) = "ok" THEN Abs(slots[s], heap) ELSE NoValue)
    /\ UNCHANGED <<slots, heap, copyOf>>

\* s[i], through const json& or json&
Index(s, i, mut, hdr) ==
    /\ ops < MaxOps
    /\ ops' = ops + 1
    /\ UNCHANGED <<textVars, run>>
    /\ slots[s] # Dead
    /\ LET st == IndexAt(slots[s], heap, i, hdr)
       IN  \E ret \in (IF st = "undefined" THEN {"garbage", "crash"} ELSE {st}) :
               last' = Op("index", s, NoSlot, <<>>, [i |-> i], mut, hdr, ret,
                          IF st = "ok" THEN Abs(Elem(heap, slots[s].data.addr, [i |-> i]), heap)
                          ELSE NoValue)
    /\ UNCHANGED <<slots, heap, copyOf>>

\* s[key], through const json& or json&
Key(s, k, mut) ==
    /\ ops < MaxOps
    /\ ops' = ops + 1
    /\ UNCHANGED <<textVars, run>>
    /\ slots[s] # Dead
    /\ LET r == IF mut THEN KeyMut(slots[s], heap, k)
                ELSE [st |-> KeyConst(slots[s], heap, k), heap |-> heap]
       IN  /\ heap' = r.heap
           /\ last' = Op("key", s, NoSlot, <<>>, [k |-> k], mut, "json.hpp", r.st,
                         IF r.st = "ok"
                         THEN Abs(Elem(r.heap, slots[s].data.addr, [k |-> k]), r.heap)
                         ELSE NoValue)
    /\ UNCHANGED <<slots, copyOf>>

NextApi ==
    \/ \E s \in SlotIds : Destroy(s)
    \/ \E s \in SlotIds : DefaultConstruct(s)
    \/ \E s \in SlotIds, t \in Payloads : \E pad \in PadsFor(t) : Construct(s, t, pad)
    \/ \E d, s \in SlotIds, path \in Paths : CopyConstruct(d, s, path)
    \/ \E d, s \in SlotIds : MoveConstruct(d, s)
    \/ \E s \in SlotIds, path \in Paths, t \in Payloads : \E pad \in PadsFor(t) :
           AssignPayload(s, path, t, pad)
    \/ \E d, s \in SlotIds, path \in Paths : CopyAssign(d, s, path)
    \/ \E d, s \in SlotIds : MoveAssign(d, s)
    \/ \E s \in SlotIds, T \in Types : Get(s, T)
    \/ \E s \in SlotIds, i \in 0..1, mut \in BOOLEAN, hdr \in Headers : Index(s, i, mut, hdr)
    \/ \E s \in SlotIds, k \in Keys, mut \in BOOLEAN : Key(s, k, mut)

(***************************************************************************)
(* json::parse executed statement by statement.  `run` holds the position  *)
(* of the one thread that executes it:                                     *)
(*   pc     the statement to execute next ("returned", "thrown", "crashed" *)
(*          once the call is over, "idle" when no call is stepped),        *)
(*   index  the shared cursor,                                             *)
(*   cont   the statement that follows the running skipSpaces call,        *)
(*   stack  the parseArray and parseObject calls in progress, innermost    *)
(*          last: the rule, the element parser f of an array, and `iter`,  *)
(*          the cursor at which the current turn of its loop began,        *)
(*   past   the bytes that happen to follow the terminator in memory,      *)
(*   it     the cursor of the last turn of the running whitespace, string  *)
(*          or key loop, -1 before its first turn,                         *)
(*   disp   the cursor of the last dispatch to a sub-parser, -1 before,    *)
(*   ev, at, before   what the last step began (a turn of a loop, a        *)
(*          dispatch), the cursor it began at and the cursor at which the  *)
(*          previous turn of that loop (the previous dispatch) began.      *)
(***************************************************************************)
NoRun == [pc |-> "idle"]

Final == {"returned", "thrown", "crashed"}

Frame(rule, f, iter) == [rule |-> rule, f |-> f, iter |-> iter]

Top(stack) == stack[Len(stack)]

Pop(stack) == SubSeq(stack, 1, Len(stack) - 1)

\* size_t index = 0 and the call of json::parse
StartRun(past) ==
    [pc |-> "parse", index |-> 0, cont |-> "none", stack |-> <<>>, past |-> past,
     it |-> -1, disp |-> -1, ev |-> "none", at |-> 0, before |-> -1]

\* the step began nothing the cursor is compared for
Quiet(r) == [r EXCEPT !.ev = "none"]

\* the step began a turn of the whitespace, string or key loop at cursor i
Turn(r, kind, i) ==
    [r EXCEPT !.ev = kind, !.at = i, !.before = r.it, !.it = i]

Stop(r, pc) == Quiet([r EXCEPT !.pc = pc])

\* a call of skipSpaces, to be followed by the statement cont
CallSkip(r, cont) == [r EXCEPT !.pc = "skip", !.cont = cont, !.it = -1]

\* the statement behind a sub-parser that returned to the loop of r.stack's top
AfterValue(r) ==
    IF r.stack = <<>> THEN [r EXCEPT !.pc = "returned"]
    ELSE IF Top(r.stack).rule = "parseArray" THEN CallSkip(r, "a378")
    ELSE CallSkip(r, "o403")

\* return json(data) of parseArray and parseObject
Return(r) == AfterValue([r EXCEPT !.stack = Pop(r.stack)])

\* ++index
Advance(i) == i + 1

\* f(txt, index): a dispatch to the sub-parser f at the cursor
Enter(r, f) ==
    LET d == [r EXCEPT !.ev = "dispatch", !.at = r.index, !.before = r.disp,
                       !.disp = r.index]
    IN  IF f = "parseArray"
        THEN [d EXCEPT !.pc = "a370",
                       !.stack = Append(r.stack, Frame(f, "none", -1))]
        ELSE IF f = "parseObject"
        THEN [d EXCEPT !.pc = "o386",
                       !.stack = Append(r.stack, Frame(f, "none", -1))]
        ELSE IF f = "parseString" THEN [d EXCEPT !.pc = "string", !.it = -1]
        ELSE [d EXCEPT !.pc = "scalar", !.cont = f]

\* how a rule without a loop of its own leaves: r is what the rule did
Leave(r, out) ==
    IF out.st = "ok" THEN AfterValue(Quiet([r EXCEPT !.index = out.index]))
    ELSE IF out.st = "throw" THEN Stop(r, "thrown")
    ELSE Stop(r, "crashed")

StepVars == <<gen, input, tree, res, valueVars>>

\* json::parse up to the dispatch on txt[index]
ParseEnter ==
    /\ run.pc = "parse"
    /\ run' = IF Len(input) < 2 THEN Stop(run, "thrown")
              ELSE IF input[1] # "{" /\ input[1] # "["
              THEN Quiet(CallSkip(run, "p295"))
              ELSE Quiet([run EXCEPT !.pc = "p295"])
    /\ UNCHANGED StepVars

\* one turn of while (++index < txt.length()) in skipSpaces
SkipStep ==
    /\ run.pc = "skip"
    /\ LET i == Advance(run.index)
           r == Turn([run EXCEPT !.index = i], "space", i)
       IN  run' = IF i < Len(input) /\ isspace(input[i + 1]) THEN r
                  ELSE IF run.cont = "o397" THEN CallSkip(r, "o399")
                  ELSE [r EXCEPT !.pc = run.cont]
    /\ UNCHANGED StepVars

\* if (txt[index] == '{') ... else if (txt[index] == '[') ... else throw
ParseDispatch ==
    /\ run.pc = "p295"
    /\ LET c == Rd(input, run.past, run.index)
       IN  run' = IF c = FAULT THEN Stop(run, "crashed")
                  ELSE IF c = "{" THEN Enter(run, "parseObject")
                  ELSE IF c = "[" THEN Enter(run, "parseArray")
                  ELSE Stop(run, "thrown")
    /\ UNCHANGED StepVars

\* parseArray: skipSpaces(txt, index)
ArrayEnter ==
    /\ run.pc = "a370"
    /\ run' = Quiet(CallSkip(run, "a371"))
    /\ UNCHANGED StepVars

\* parseArray: const parser f = getParser(txt[index]); index--
ArrayPick ==
    /\ run.pc = "a371"
    /\ LET c == Rd(input, run.past, run.index)
           n == Len(run.stack)
       IN  run' = IF c = FAULT THEN Stop(run, "crashed")
                  ELSE IF getParser(c) = "throw" THEN Stop(run, "thrown")
                  ELSE Quiet([run EXCEPT !.pc = "a375",
                                         !.index = run.index - 1,
                                         !.stack[n].f = getParser(c)])
    /\ UNCHANGED StepVars

\* parseArray: a turn of the do-while begins with skipSpaces(txt, index)
ArrayIter ==
    /\ run.pc = "a375"
    /\ LET n == Len(run.stack)
       IN  run' = CallSkip([run EXCEPT !.ev = "array", !.at = run.index,
                                       !.before = run.stack[n].iter,
                                       !.stack[n].iter = run.index], "a376")
    /\ UNCHANGED StepVars

\* parseArray: data.push_back(f(txt, index))
ArrayCall ==
    /\ run.pc = "a376"
    /\ run' = Enter(run, Top(run.stack).f)
    /\ UNCHANGED StepVars

\* parseArray: while (txt[index] == ',' && index < txt.length()), then return
ArrayCond ==
    /\ run.pc = "a378"
    /\ LET c == Rd(input, run.past, run.index)
       IN  run' = IF c = FAULT THEN Stop(run, "crashed")
                  ELSE IF c = "," /\ run.index < Len(input)
                  THEN Quiet([run EXCEPT !.pc = "a375"])
                  ELSE Quiet(Return(run))
    /\ UNCHANGED StepVars

\* parseObject: a turn of the do-while begins with skipSpaces(txt, index)
ObjectIter ==
    /\ run.pc = "o386"
    /\ LET n == Len(run.stack)
       IN  run' = CallSkip([run EXCEPT !.ev = "object", !.at = run.index,
                                       !.before = run.stack[n].iter,
                                       !.stack[n].iter = run.index], "o388")
    /\ UNCHANGED StepVars

\* parseObject: if (txt[index] == '}') return json(data); for (++index; ...
ObjectCheck ==
    /\ run.pc = "o388"
    /\ LET c == Rd(input, run.past, run.index)
       IN  run' = IF c = FAULT THEN Stop(run, "crashed")
                  ELSE IF c = "}" THEN Quiet(Return(run))
                  ELSE Quiet([run EXCEPT !.pc = "key", !.it = -1,
                                         !.index = run.index + 1])
    /\ UNCHANGED StepVars

\* parseObject: for (...; index < txt.length() && txt[index] != '\"'; index++),
\* then the first of the two skipSpaces calls
KeyStep ==
    /\ run.pc = "key"
    /\ run' = IF run.index < Len(input) /\ input[run.index + 1] # QUOTE
              THEN [Turn(run, "key", run.index) EXCEPT !.index = run.index + 1]
              ELSE Quiet(CallSkip(run, "o397"))
    /\ UNCHANGED StepVars

\* parseObject: data.insert({ name, getParser(txt[index])(txt, index) })
ObjectCall ==
    /\ run.pc = "o399"
    /\ LET c == Rd(input, run.past, run.index)
       IN  run' = IF c = FAULT THEN Stop(run, "crashed")
                  ELSE IF getParser(c) = "throw" THEN Stop(run, "thrown")
                  ELSE Enter(run, getParser(c))
    /\ UNCHANGED StepVars

\* parseObject: while (txt[index] == ',' && index < txt.length()), then return
ObjectCond ==
    /\ run.pc = "o403"
    /\ LET c == Rd(input, run.past, run.index)
       IN  run' = IF c = FAULT THEN Stop(run, "crashed")
                  ELSE IF c = "," /\ run.index < Len(input)
                  THEN Quiet([run EXCEPT !.pc = "o386"])
                  ELSE Quiet(Return(run))
    /\ UNCHANGED StepVars

\* one turn of while (txt[++index] != '\"') in parseString
StringStep ==
    /\ run.pc = "string"
    /\ LET i == run.index + 1
           c == Rd(input, run.past, i)
           r == Turn([run EXCEPT !.index = i], "string", i)
       IN  run' = IF c = FAULT THEN Stop(r, "crashed")
                  ELSE IF c = QUOTE THEN AfterValue(r)
                  ELSE IF i + 2 >= Len(input)
                  THEN Leave(r, parsingError(input, run.past, i, i))
                  ELSE r
    /\ UNCHANGED StepVars

\* parseNull, parseBoolean and parseNumber have no loop of their own
ScalarStep ==
    /\ run.pc = "scalar"
    /\ run' = Leave(run,
                    IF run.cont = "parseNull"
                    THEN parseNull(input, run.past, run.index)
                    ELSE IF run.cont = "parseBoolean"
                    THEN parseBoolean(input, run.past, run.index)
                    ELSE parseNumber(input, run.past, run.index))
    /\ UNCHANGED StepVars

NextRun ==
    \/ ParseEnter
    \/ SkipStep
    \/ ParseDispatch
    \/ ArrayEnter
    \/ ArrayPick
    \/ ArrayIter
    \/ ArrayCall
    \/ ArrayCond
    \/ ObjectIter
    \/ ObjectCheck
    \/ KeyStep
    \/ ObjectCall
    \/ ObjectCond
    \/ StringStep
    \/ ScalarStep

\* the texts json::parse is stepped on: up to MaxLen chunks, and array and
\* object texts of up to MaxElems elements, closed or left open
RECURSIVE ChunkTexts(_)
ChunkTexts(k) ==
    IF k = 0 THEN {<<>>}
    ELSE ChunkTexts(k - 1)
            \cup {t \o c : t \in ChunkTexts(k - 1), c \in Chunks \cup {<<",">>}}

RunElements == ElementTexts \cup {<<" ", "1", " ">>, <<QUOTE, "a", "b", QUOTE>>}

RunMembers == {<<QUOTE, "a", QUOTE, ":">> \o m : m \in MemberTexts}
                 \cup {<<" ", QUOTE, "a", "b", QUOTE, " ", ":", " ", "1", " ">>}

RECURSIVE Joined(_, _, _)
Joined(open, items, k) ==
    IF k = 1 THEN {open \o e : e \in items}
    ELSE Joined(open, items, k - 1)
            \cup {t \o <<",">> \o e : t \in Joined(open, items, k - 1), e \in items}

RunTexts ==
    ChunkTexts(MaxLen)
        \cup UNION {{t, t \o <<"]">>} : t \in Joined(<<"[">>, RunElements, MaxElems)}
        \cup UNION {{t, t \o <<"}">>} : t \in Joined(<<"{">>, RunMembers, MaxElems)}

InitRun ==
    /\ gen = Gen("none", 0)
    /\ input \in RunTexts
    /\ tree = NoValue
    /\ res = NoResult
    /\ InitValue
    /\ run \in {StartRun(past) : past \in PastMem}

(***************************************************************************)
(* The specifications: the parser and serializer with their caller, the    *)
(* Value API with its caller, and json::parse stepped through one text.    *)
(* The stepped call runs on one thread that nothing interrupts, so a step  *)
(* that can be taken is taken: weak fairness of NextRun.                   *)
(***************************************************************************)
Init == InitText /\ InitValue /\ run = NoRun

Spec == Init /\ [][Next]_vars

SpecValue == Init /\ [][NextApi]_vars

SpecRun == InitRun /\ [][NextRun]_vars /\ WF_vars(NextRun)

(***************************************************************************)
(* Properties of the parser and the serializer (specification Spec).       *)
(***************************************************************************)
\* parse has returned or thrown on the text to_string wrote in compact mode
RoundTripped ==
    /\ gen.kind = "written"
    /\ gen.n = -1
    /\ res.rule = "parse"

\* C1: round trip.  For every Array or Object tree v (Strings without quotes
\* or control characters), parse(to_string(v, -1)) returns a Value
\* structurally equal to v; empty arrays, empty objects, arrays of mixed
\* variants and nested containers included.
C1_RoundTrip ==
    (RoundTripped /\ tree.type \in {"array", "object"})
        => (res.out.st = "ok" /\ res.out.val = tree)

\* the first character of the text that is not whitespace, NUL if there is none
RECURSIVE FirstSignificant(_)
FirstSignificant(txt) ==
    IF txt = <<>> THEN NUL
    ELSE IF isspace(Head(txt)) THEN FirstSignificant(Tail(txt))
    ELSE Head(txt)

\* C2: parse skips only leading whitespace, and a text whose first character
\* that is not whitespace is neither '{' nor '[' is rejected: parse fails and
\* returns no Value.
C2_RejectsNonContainer ==
    (res.rule = "parse" /\ FirstSignificant(input) \notin {"{", "["})
        => res.out.st # "ok"

\* the literal a rule was called on, when the text holds one at the cursor
LiteralAt(word) ==
    /\ res.rule \in {"parseNull", "parseBoolean"}
    /\ res.start + Len(word) <= Len(input)
    /\ SubSeq(input, res.start + 1, res.start + Len(word)) = word

\* C3 as stated: parse applied to the texts null, true and false yields Null,
\* Boolean true and Boolean false.
C3_ParseYieldsScalar ==
    /\ (res.rule = "parse" /\ input = Lit("null"))
           => (res.out.st = "ok" /\ res.out.val = Null)
    /\ (res.rule = "parse" /\ input = Lit("true"))
           => (res.out.st = "ok" /\ res.out.val = Bool(TRUE))
    /\ (res.rule = "parse" /\ input = Lit("false"))
           => (res.out.st = "ok" /\ res.out.val = Bool(FALSE))

\* C3 amended: the rule getParser selects for a value that begins with the
\* literal null, true or false returns Null, Boolean true or Boolean false
\* with the cursor on the last character of the literal, whatever follows
\* it; parse itself rejects the texts null, true and false.
C3_LiteralRules ==
    /\ LiteralAt(Lit("null"))
           => res.out = Ok(Null, res.start + 3, res.start + 3)
    /\ LiteralAt(Lit("true"))
           => res.out = Ok(Bool(TRUE), res.start + 3, res.start + 3)
    /\ LiteralAt(Lit("false"))
           => res.out = Ok(Bool(FALSE), res.start + 4, res.start + 4)
    /\ (res.rule = "parse" /\ input \in {Lit("null"), Lit("true"), Lit("false")})
           => res.out.st = "throw"

\* C3 witness: the rule for null returned Null on a text that goes on after
\* the literal.
C3_LiteralFollowed ==
    /\ LiteralAt(Lit("null"))
    /\ res.start + 4 < Len(input)
    /\ res.out.st = "ok"
    /\ res.out.val = Null

\* the Value a member text of the generated objects denotes
MemberValue(m) ==
    CASE m = <<"1">>           -> Num(One)
      [] m = <<"2">>           -> Num(Dec(FALSE, 2, 0))
      [] m = Lit("null")       -> Null
      [] m = Lit("true")       -> Bool(TRUE)
      [] m = <<"[", "1", "]">> -> Arr(<<Num(One)>>)
      [] m = <<"{", "}">>      -> Obj(<<>>)

\* the text {"k":m1,"k":m2}
TwiceText(k, m1, m2) ==
    <<"{", QUOTE>> \o k \o <<QUOTE, ":">> \o m1
        \o <<",", QUOTE>> \o k \o <<QUOTE, ":">> \o m2 \o <<"}">>

\* C4: when a key occurs twice in an object text, the later pair overwrites
\* the earlier one: the Object has one entry for the key and its value is
\* that of the last occurrence ({"a":1,"a":2} yields {"a":2}).
C4_LastOccurrenceWins ==
    \A k \in Keys, m1, m2 \in MemberTexts :
        (res.rule = "parse" /\ input = TwiceText(k, m1, m2))
            => (res.out.st = "ok" /\ res.out.val = Obj(k :> MemberValue(m2)))

\* C10: in compact mode (indent < 0) the text to_string writes contains no
\* space, tab or newline, for every tree whose keys and Strings hold none.
C10_CompactHasNoWhitespace ==
    (gen.kind = "written" /\ gen.n < 0)
        => \A i \in 1..Len(input) : ~isspace(input[i])

(***************************************************************************)
(* Properties of the Value API (specification SpecValue).                  *)
(***************************************************************************)
\* the step is an operation `op` of the caller of the Value API
Did(op) == ops' # ops /\ last'.op = op

\* the tag of a json object and its word agree, at every node
RECURSIVE WellTagged(_, _)
WellTagged(u, h) ==
    CASE u.type = "null"    -> u.data = [bits |-> 0]
      [] u.type = "boolean" -> u.data.b \in BOOLEAN
      [] u.type = "number"  -> DOMAIN u.data = {"neg", "ip", "fp"}
      [] u.type = "string"  -> h[u.data.addr].kind = "string"
      [] u.type = "array"   ->
           /\ h[u.data.addr].kind = "array"
           /\ \A i \in 1..Len(h[u.data.addr].a) : WellTagged(h[u.data.addr].a[i], h)
      [] u.type = "object"  ->
           /\ h[u.data.addr].kind = "object"
           /\ \A k \in DOMAIN h[u.data.addr].o : WellTagged(h[u.data.addr].o[k], h)
      [] OTHER -> FALSE

C5_State ==
    /\ \A s \in SlotIds : slots[s] # Dead => WellTagged(slots[s], heap)
    /\ last.op = "get" =>
           /\ last.ret = "ok" <=> last.arg.t = slots[last.slot].type
           /\ last.ret = "ok" => last.val = Abs(slots[last.slot], heap)
           /\ last.ret # "ok" => last.ret = "TypeMismatch" /\ last.val = NoValue

C5_Step == Did("get") => slots' = slots /\ heap' = heap

\* C5: after any sequence of constructions, payload assignments, copies and
\* moves, every Value has one active variant that its word matches, and
\* get<T>() succeeds if and only if T is the active variant; on a mismatch
\* it raises TypeMismatch and returns no payload, and in both cases it
\* leaves the Value unchanged.
C5_TypedAccess == []C5_State /\ [][C5_Step]_vars

\* C5 witness: get<T>() has raised TypeMismatch on an Array, Object or String
\* that earlier operations put into the slot.
C5_MismatchOnBoxed ==
    /\ last.op = "get"
    /\ last.ret = "TypeMismatch"
    /\ using_pointer(slots[last.slot].type)
    /\ ops > 2

\* C6: indexing by position i, const or not and in both copies of the
\* header, returns element i of an Array for i < length, fails with
\* IndexOutOfRange for i >= length, and fails with TypeMismatch on any other
\* variant.
C6_IndexIsChecked ==
    last.op = "index" =>
        LET v == Abs(slots[last.slot], heap)
        IN  /\ (v.type = "array" /\ last.arg.i < Len(v.a))
                   => (last.ret = "ok" /\ last.val = v.a[last.arg.i + 1])
            /\ (v.type = "array" /\ last.arg.i >= Len(v.a))
                   => last.ret = "IndexOutOfRange"
            /\ v.type # "array" => last.ret = "TypeMismatch"

\* the entries of an Object tree other than k
Others(v, k) == [j \in DOMAIN v.o \ {k} |-> v.o[j]]

C7_Step ==
    Did("key") =>
        LET s      == last'.slot
            k      == last'.arg.k
            before == Abs(slots[s], heap)
            after  == Abs(slots'[s], heap')
        IN  /\ \A t \in SlotIds \ {s} : Abs(slots'[t], heap') = Abs(slots[t], heap)
            /\ before.type # "object" =>
                   /\ last'.ret = "TypeMismatch"
                   /\ after = before
            /\ (before.type = "object" /\ ~last'.mut) =>
                   /\ after = before
                   /\ last'.ret = (IF k \in DOMAIN before.o THEN "ok" ELSE "KeyNotFound")
                   /\ k \in DOMAIN before.o => last'.val = before.o[k]
            /\ (before.type = "object" /\ last'.mut) =>
                   /\ last'.ret = "ok"
                   /\ after.type = "object"
                   /\ DOMAIN after.o = DOMAIN before.o \cup {k}
                   /\ Others(after, k) = Others(before, k)
                   /\ after.o[k] = (IF k \in DOMAIN before.o THEN before.o[k] ELSE Null)
                   /\ last'.val = after.o[k]

\* C7: indexing by key k.  On an Object the const form changes nothing and
\* fails with KeyNotFound exactly when k is absent; the mutable form never
\* fails, adds the single entry k -> Null when k was absent and changes
\* nothing when k was present, every other entry staying as it was.  On any
\* other variant both forms fail with TypeMismatch and the Value is not
\* turned into an Object.
C7_KeyAccess == [][C7_Step]_vars

\* C7 witness: the mutable form was called with a key of an Object that
\* holds another entry besides, and the entry of the key is Null.
C7_KeyAdded ==
    /\ last.op = "key"
    /\ last.mut
    /\ last.ret = "ok"
    /\ last.arg.k = <<"b">>
    /\ Abs(slots[last.slot], heap).type = "object"
    /\ DOMAIN Abs(slots[last.slot], heap).o = Keys
    /\ last.val = Null

C8_State ==
    /\ \A s, t \in SlotIds :
           s # t => Reach(slots[s], heap) \cap Reach(slots[t], heap) = {}
    /\ \A s \in SlotIds :
           Cardinality(Reach(slots[s], heap)) = Boxes(Abs(slots[s], heap))
    /\ (last.op \in {"copy-construct", "copy-assign"} /\ last.ret = "ok")
           => Abs(slots[last.slot], heap) = last.val

C8_Step ==
    (ops' # ops /\ last'.op \notin {"move-construct", "move-assign"})
        => \A t \in SlotIds \ {last'.slot} : Abs(slots'[t], heap') = Abs(slots[t], heap)

\* C8: a copy (copy construction or copy assignment) equals its source and
\* shares no box with it, at any depth: no box is reached from two json
\* objects or twice from one, and every later operation on one of the two
\* (a payload assignment at any depth, a key added) leaves the other as it
\* was.
C8_DeepCopy == []C8_State /\ [][C8_Step]_vars

\* C8 witness: an Object holding an Array was copied, an element of the
\* Array of the copy was then assigned, and source and copy now differ.
C8_CopyMutated ==
    /\ last.op = "assign"
    /\ last.ret = "ok"
    /\ Len(last.path) = 2
    /\ copyOf[last.slot] \in SlotIds
    /\ Abs(slots[copyOf[last.slot]], heap).type = "object"
    /\ \E k \in DOMAIN Abs(slots[copyOf[last.slot]], heap).o :
           Abs(slots[copyOf[last.slot]], heap).o[k].type = "array"
    /\ Abs(slots[last.slot], heap) # Abs(slots[copyOf[last.slot]], heap)

\* C9: a move, by move construction or move assignment and for every
\* variant of the source, gives the destination the payload of the source
\* and leaves the source Null.
C9_MoveLeavesNull ==
    (last.op \in {"move-construct", "move-assign"} /\ last.other # last.slot)
        => /\ Abs(slots[last.slot], heap) = last.val
           /\ slots[last.other] = JNull

(***************************************************************************)
(* Properties of the sub-parsers (specification Spec).                     *)
(***************************************************************************)
\* C11: a text in which the object opened by '{' is not closed by '}' before
\* the end of the input (it ends right after a complete member value) makes
\* parse raise an error; no Value is returned.
C11_UnterminatedObjectFails ==
    (gen.kind = "members" /\ res.rule = "parse") => res.out.st # "ok"

\* the position of the first '"' of the text behind position p, -1 if none
RECURSIVE NextQuote(_, _)
NextQuote(txt, p) ==
    IF p + 1 >= Len(txt) THEN -1
    ELSE IF txt[p + 2] = QUOTE THEN p + 1
    ELSE NextQuote(txt, p + 1)

\* C12: the string rule, started on an opening '"' at position p, returns
\* the characters at p+1..q-1 verbatim when the next '"' is at position q,
\* and fails with an error when the input ends before any closing '"'.
C12_StringRule ==
    res.rule = "parseString" =>
        LET q == NextQuote(input, res.start)
        IN  IF q >= 0
            THEN /\ res.out.st = "ok"
                 /\ res.out.val = Str(SubSeq(input, res.start + 2, q))
            ELSE res.out.st = "throw"

\* the parser parseArray picks from the leading character of the first element
ElemRule == getParser(input[gen.elems[1] + 1])

\* the parser's outcomes on the i-th element, started where it begins
ElemOut(i) == Outcomes(ElemRule, input, gen.elems[i])

\* the i-th element is accepted: the parser succeeds on it and stops before
\* the next element begins
ElemAccepted(i) ==
    \A r \in ElemOut(i) :
        /\ r.st = "ok"
        /\ i < gen.n => r.index < gen.elems[i + 1] - 1

ElemValue(i) == (CHOOSE r \in ElemOut(i) : TRUE).val

\* C13: for a text '[' e1 ',' ... ',' en with optional whitespace around the
\* elements, all of them accepted by the parser chosen from the leading
\* character of e1, parse returns the Array of the n parsed elements in
\* textual order, whether or not a ']' follows.
C13_ArrayOfElements ==
    (/\ gen.kind \in {"elements", "array"}
     /\ res.rule = "parse"
     /\ ElemRule # "throw"
     /\ \A i \in 1..gen.n : ElemAccepted(i))
    => /\ res.out.st = "ok"
       /\ res.out.val = Arr([i \in 1..gen.n |-> ElemValue(i)])

\* the character under the cursor a rule returned with, NUL beyond the text
AtCursor == IF res.out.index < Len(input) THEN input[res.out.index + 1] ELSE NUL

\* the text between the position the rule started on and its cursor
Consumed == SubSeq(input, res.start + 1, res.out.index + 1)

\* the cursor is on the last character of the value the rule `f` read
OnLastCharacter(f) ==
    CASE f = "parseNull"    -> Consumed = Lit("null")
      [] f = "parseBoolean" -> Consumed \in {Lit("true"), Lit("false")}
      [] f = "parseNumber"  ->
             /\ isdigit(AtCursor)
             /\ res.out.index + 1 < Len(input)
                    => ~isdigit(input[res.out.index + 2])
      [] f = "parseString"  -> res.out.index = NextQuote(input, res.start)
      [] f = "parseArray"   -> AtCursor = "]"
      [] f = "parseObject"  -> AtCursor = "}"
      [] f = "parse"        -> AtCursor \in {"]", "}"}

\* C14: whenever a sub-parser returns successfully the cursor is on the last
\* character it consumed: the final 'l' of null, the final 'e' of true and
\* false, the last character of the number, the closing '"', ']' or '}'.
C14_CursorOnLast ==
    (res.rule # "none" /\ res.out.st = "ok") => OnLastCharacter(res.rule)

\* C15: during json::parse of a text of length n >= 2 every read of the text
\* at the cursor happens at a position <= n, never beyond the terminator.
C15_ReadsWithinText ==
    (res.rule = "parse" /\ Len(input) >= 2)
    => (res.out.st # "crash" /\ res.out.hi <= Len(input))

(***************************************************************************)
(* Properties of the stepped call (specification SpecRun).                 *)
(***************************************************************************)
\* the stepped call ends as the rules of the parser say it does
RunAgrees ==
    run.pc \in Final =>
        LET r == parse(input, run.past)
        IN  /\ run.pc = "returned" <=> r.st = "ok"
            /\ run.pc = "thrown" <=> r.st = "throw"
            /\ run.pc = "crashed" <=> r.st = "crash"
            /\ r.st = "ok" => run.index = r.index

\* every turn of a loop and every dispatch begins at a greater cursor than
\* the previous turn of that loop, the previous dispatch
Progress == (run.pc # "idle" /\ run.ev # "none") => run.at > run.before

\* the call is over, however it ended
RunEnds == <>(run.pc \in Final)

\* C16: for every text json::parse eventually returns a Value or raises an
\* error, and every turn of the whitespace, string, key, array and object
\* loops and every dispatch to a sub-parser begins at a strictly greater
\* cursor position than the previous one.
C16_Terminates == []Progress /\ <>(run.pc \in {"returned", "thrown"})

=============================================================================
